---- MODULE Spec2Model ----
(***************************************************************************)
(* Model of the LiveSlides component (src/components/LiveSlides.tsx): one  *)
(* React component instance per client, each attached to the realtime      *)
(* channel "slides:<roomId>" of its room.  Every action is one handler of  *)
(* the component together with the render and the effects that follow it, *)
(* or one step of the hosted realtime service that carries the messages.   *)
(*                                                                         *)
(* The service, as the component uses it: operations issued on a channel   *)
(* (track, send) are processed in the order they were issued, and only     *)
(* once the channel is joined; a track replaces the presence record of the *)
(* client's key and is followed by a presence-sync on every joined client; *)
(* a broadcast reaches every joined client but its sender; each client     *)
(* handles its events in the order the service emitted them.               *)
(***************************************************************************)
EXTENDS Integers, Sequences, FiniteSets, TLC

\* ---------------------------------------------------------------- bounds
NClients   == 3      \* component instances attached to the room
MaxSlides  == 2      \* longest slide list tried
MaxInbox   == 2      \* undelivered events per client
MaxPending == 1      \* operations a client may have pending when the user acts
MaxForeign == 1      \* broadcasts sent by a participant that is not this component
MaxGestures == 2     \* user gestures (clicks) over all clients
MaxRejects == 1      \* operations of the component that fail
MaxLen     == 4      \* longest value of the presenter query parameter tried

Clients == 1..NClients
Foreign == 0         \* sender id of a participant that is not a LiveSlides instance

VARIABLES
    slideCount,     \* slides.length (prop, the same list for every client)
    isPresenter,    \* isPresenter prop of each client
    status,         \* "idle" | "connecting" | "subscribed" | "closed"
    index,          \* useState index
    liveFollow,     \* useState liveFollow
    capIndex,       \* index as captured by the closures of the channel effect
    capLiveFollow,  \* liveFollow as captured by the closures of the channel effect
    outbox,         \* operations issued on the channel, not yet processed by the service
    inbox,          \* events the service has emitted to the client, not yet handled
    presence,       \* presence records held by the service, by presence key
    foreignSent,    \* number of foreign broadcasts so far
    gestures,       \* number of user gestures so far
    roomId,         \* roomId prop of each client
    request,        \* the page request being resolved (route and query parameters)
    stale,          \* events of a torn-down channel that have not been dispatched yet
    rejects,        \* number of operations that have failed so far
    unhandled,      \* a promise of the component was rejected with no handler attached
    last            \* the handler that ran last, what it consumed and what it issued

vars == <<slideCount, isPresenter, status, index, liveFollow, capIndex,
          capLiveFollow, outbox, inbox, presence, foreignSent, gestures, roomId,
          request, stale, rejects, unhandled, last>>

\* ------------------------------------------------------------ data shapes
NoRec == [role |-> "none", index |-> 0]

Track(r, i) == [op |-> "track", role |-> r, index |-> i]

Send(i) == [op |-> "send", role |-> "none", index |-> i]

NumP(n) == [t |-> "num", v |-> n]

StrP == [t |-> "str", v |-> 0]

UndefP == [t |-> "undef", v |-> 0]

NoState == [k \in Clients |-> NoRec]

SlideMsg(from, p) == [ev |-> "slide", from |-> from, payload |-> p, state |-> NoState]

SyncMsg(st) == [ev |-> "sync", from |-> Foreign, payload |-> UndefP, state |-> st]

\* the presence-sync that follows a track of client c; the event itself does
\* not say who caused it, the model notes it: c, and whether c had a record
SyncBy(c, had, st) ==
    [ev |-> "sync", from |-> c,
     payload |-> [t |-> IF had THEN "retrack" ELSE "track", v |-> 0], state |-> st]

NoMsg == [ev |-> "none", from |-> Foreign, payload |-> UndefP, state |-> NoState]

ForeignPayloads == {NumP(-1), NumP(MaxSlides), StrP, UndefP}

\* ------------------------------------------------------------ pure helpers
Max(a, b) == IF a >= b THEN a ELSE b

Min(a, b) == IF a <= b THEN a ELSE b

SetMax(S) == CHOOSE m \in S : \A x \in S : x <= m

\* variant of bound without the upper limit
boundNoUpper(i) == Max(0, i)

\* const bound = (i) => Math.max(0, Math.min(slides.length - 1, i))
bound(i) == Max(0, Min(slideCount - 1, i))

roleOf(c) == IF isPresenter[c] THEN "presenter" ELSE "viewer"

\* variant of NumberOf that parses every value to a number
NumberOfCoerced(p) ==
    CASE p.t = "num"   -> [nan |-> FALSE, v |-> p.v]
      [] OTHER         -> [nan |-> FALSE, v |-> 0]

\* Number(payload.payload?.index ?? 0)
NumberOf(p) ==
    CASE p.t = "num"   -> [nan |-> FALSE, v |-> p.v]
      [] p.t = "undef" -> [nan |-> FALSE, v |-> 0]
      [] OTHER         -> [nan |-> TRUE,  v |-> 0]

\* ------------------------------------------------- handlers, as computed
\* variant of slideHandler that sets the received number as it comes
slideHandlerNoClamp(c, p) ==
    IF ~capLiveFollow[c] THEN index[c]
    ELSE IF NumberOf(p).nan THEN index[c] ELSE NumberOf(p).v

\* channel.on("broadcast", {event: "slide"}, ...): the index after the handler.
\* liveFollow is the value the closure captured when the channel effect ran.
slideHandler(c, p) ==
    IF ~capLiveFollow[c] THEN index[c]
    ELSE IF NumberOf(p).nan THEN index[c] ELSE bound(NumberOf(p).v)

\* variant of presenters that keeps the records of every role
presentersAnyRole(st) == {k \in DOMAIN st : st[k].role # "none"}

\* Object.values(state).flat().filter(p => p?.role === "presenter")
presenters(st) == {k \in DOMAIN st : st[k].role = "presenter"}

\* variant of latestIdx that takes the lowest presenter index
latestIdxMin(st) ==
    IF presenters(st) # {}
    THEN CHOOSE m \in {st[k].index : k \in presenters(st)} :
            \A k \in presenters(st) : m <= st[k].index
    ELSE 0

\* presenters.length > 0 ? Math.max(...presenters.map(p => p.index)) : 0
\* (every record the component tracks carries a number as index)
latestIdx(st) ==
    IF presenters(st) # {}
    THEN SetMax({st[k].index : k \in presenters(st)})
    ELSE 0

\* channel.on("presence", {event: "sync"}, ...): the index after the handler
syncHandler(c, st) ==
    IF isPresenter[c] THEN index[c] ELSE bound(latestIdx(st))

\* variant of republish that tracks after every handler, changed index or not
republishAlways(c, old, new) ==
    IF isPresenter[c] THEN <<Track("presenter", new)>> ELSE <<>>

\* useEffect(..., [index, isPresenter]) after a render that changed index
republish(c, old, new) ==
    IF isPresenter[c] /\ old # new THEN <<Track("presenter", new)>> ELSE <<>>

broadcast(i) == <<Send(i)>>

\* variant of navIssued without the role test
navIssuedAnyRole(c, i) == broadcast(i)

\* if (isPresenter) broadcast(i)
navIssued(c, i) == IF isPresenter[c] THEN broadcast(i) ELSE <<>>

\* variant of nextIndex without bound
nextIndexUnbounded(c) == index[c] + 1

\* const i = bound(index + 1) / bound(index - 1)
nextIndex(c) == bound(index[c] + 1)

prevIndex(c) == bound(index[c] - 1)

\* what the SUBSCRIBED callback issues, from the values its closure captured
onSubscribed(c) ==
    <<Track(roleOf(c), capIndex[c])>>
        \o (IF isPresenter[c] THEN <<Send(capIndex[c])>> ELSE <<>>)

\* ------------------------------------------------------------ page resolver
\* characters the presenter parameter is built from
Chars == {"0", "1", "t", "T", "r", "u", "e", "y", "Y", "s"}

Strings == UNION {[1..n -> Chars] : n \in 0..MaxLen}

Rooms == {"r1", "R1"}

Absent == [t |-> "undef", v |-> <<>>]

Str(s) == [t |-> "str", v |-> s]

NoRequest == [c |-> Foreign, roomId |-> "r1", presenter |-> Absent]

Requests ==
    [c : Clients, roomId : Rooms, presenter : {Absent} \cup {Str(s) : s \in Strings}]

\* String.prototype.toLowerCase on the characters of Chars
lowerChar(ch) ==
    CASE ch = "T" -> "t"
      [] ch = "Y" -> "y"
      [] OTHER -> ch

lowerCase(s) == [k \in 1..Len(s) |-> lowerChar(s[k])]

\* variant of pageIsPresenter that compares the parameter as given
pageIsPresenterCaseSensitive(p) ==
    /\ p.t # "undef"
    /\ p.v \in {<<"1">>, <<"t", "r", "u", "e">>, <<"y", "e", "s">>}

\* typeof presenter !== "undefined" &&
\*   ["1", "true", "yes"].includes(String(presenter).toLowerCase())
pageIsPresenter(p) ==
    /\ p.t # "undef"
    /\ lowerCase(p.v) \in {<<"1">>, <<"t", "r", "u", "e">>, <<"y", "e", "s">>}

\* ------------------------------------------------------------- bookkeeping
mounted(c) == status[c] \in {"connecting", "subscribed"}

joined == {d \in Clients : status[d] = "subscribed"}

Emit(recips, m) ==
    [d \in Clients |-> IF d \in recips THEN Append(inbox[d], m) ELSE inbox[d]]

Room(recips) == \A d \in recips : Len(inbox[d]) < MaxInbox

Ran(op, c, prev, m, issued) ==
    [op |-> op, c |-> c, prev |-> prev, msg |-> m, issued |-> issued]

EnvStep == Ran("env", Foreign, 0, NoMsg, <<>>)

props == <<slideCount, isPresenter, roomId, request>>

offChannel == <<stale, rejects, unhandled>>

NoStale == [q |-> <<>>, liveFollow |-> TRUE]

\* the joined clients of room r, and the presence state of room r
inRoom(r) == {d \in joined : roomId[d] = r}

roomState(pres, r) == [k \in Clients |-> IF roomId[k] = r THEN pres[k] ELSE NoRec]

\* the recipients of the oldest pending operation of client d
recipients(d) ==
    IF Head(outbox[d]).op = "send" THEN inRoom(roomId[d]) \ {d} ELSE inRoom(roomId[d])

canServe(d) == status[d] = "subscribed" /\ outbox[d] # <<>> /\ Room(recipients(d))

\* Exploration order.  The service processes what joined clients have issued
\* before anybody acts again, and handler runs of different clients, which
\* touch disjoint state, are taken in the order of the client ids.
quiet == \A d \in Clients : status[d] = "subscribed" => outbox[d] = <<>>

turn(c) ==
    /\ \A d \in Clients : ~canServe(d)
    /\ \A d \in Clients : (d < c /\ status[d] = "subscribed") => inbox[d] = <<>>

Gesture == quiet /\ gestures < MaxGestures /\ gestures' = gestures + 1

\* ------------------------------------------------------------------ Init
InitRoom ==
    /\ slideCount \in 1..MaxSlides
    \* clients differ only by role: the presenters are taken to be the first ones
    /\ \E n \in 0..NClients : isPresenter = [c \in Clients |-> c <= n]
    /\ status = [c \in Clients |-> "idle"]
    /\ index = [c \in Clients |-> 0]
    /\ liveFollow = [c \in Clients |-> TRUE]
    /\ capIndex = [c \in Clients |-> 0]
    /\ capLiveFollow = [c \in Clients |-> TRUE]
    /\ outbox = [c \in Clients |-> <<>>]
    /\ inbox = [c \in Clients |-> <<>>]
    /\ presence = NoState
    /\ foreignSent = 0
    /\ gestures = 0
    /\ last = EnvStep
    /\ roomId = [c \in Clients |-> "r1"]
    /\ stale = [c \in Clients |-> NoStale]
    /\ rejects = 0
    /\ unhandled = FALSE

Init == InitRoom /\ request = NoRequest

\* --------------------------------------------------------------- actions
\* First render and its effects: the channel effect creates the channel,
\* registers the handlers (closing over index and liveFollow of this render)
\* and calls subscribe(); the republish effect then runs in the same commit.
Mount(c) ==
    /\ status[c] = "idle"
    /\ quiet
    /\ status' = [status EXCEPT ![c] = "connecting"]
    /\ capIndex' = [capIndex EXCEPT ![c] = index[c]]
    /\ capLiveFollow' = [capLiveFollow EXCEPT ![c] = liveFollow[c]]
    /\ outbox' = [outbox EXCEPT ![c] =
                    IF isPresenter[c] THEN <<Track("presenter", index[c])>> ELSE <<>>]
    /\ last' = Ran("Mount", c, index[c], NoMsg, outbox'[c])
    /\ UNCHANGED <<props, offChannel, gestures, index, liveFollow, inbox, presence, foreignSent>>

\* The service acknowledges the join: subscribe's callback runs with
\* "SUBSCRIBED" and the service sends the presence state of the room.
Subscribed(c) ==
    /\ status[c] = "connecting"
    /\ quiet
    /\ status' = [status EXCEPT ![c] = "subscribed"]
    /\ outbox' = [outbox EXCEPT ![c] = @ \o onSubscribed(c)]
    /\ inbox' = [inbox EXCEPT ![c] = <<SyncMsg(roomState(presence, roomId[c]))>>]
    /\ last' = Ran("Subscribed", c, index[c], NoMsg, onSubscribed(c))
    /\ UNCHANGED <<props, offChannel, gestures, index, liveFollow, capIndex, capLiveFollow,
                   presence, foreignSent>>

\* next / prev buttons (rendered for both roles)
Navigate(c, op, i) ==
    /\ mounted(c)
    /\ Gesture
    /\ Len(outbox[c]) <= MaxPending
    /\ index' = [index EXCEPT ![c] = i]
    /\ outbox' = [outbox EXCEPT ![c] =
                    @ \o navIssued(c, i) \o republish(c, index[c], i)]
    /\ last' = Ran(op, c, index[c], NoMsg,
                   navIssued(c, i) \o republish(c, index[c], i))
    /\ UNCHANGED <<props, offChannel, status, liveFollow, capIndex, capLiveFollow,
                   inbox, presence, foreignSent>>

next(c) == Navigate(c, "next", nextIndex(c))

prev(c) == Navigate(c, "prev", prevIndex(c))

\* the follow-live checkbox: onChange={(e) => setLiveFollow(e.target.checked)}
setLiveFollow(c) ==
    /\ mounted(c)
    /\ Gesture
    /\ liveFollow' = [liveFollow EXCEPT ![c] = ~@]
    /\ last' = Ran("setLiveFollow", c, index[c], NoMsg, <<>>)
    /\ UNCHANGED <<props, offChannel, status, index, capIndex, capLiveFollow, outbox,
                   inbox, presence, foreignSent>>

\* variant of reSyncIssued that also broadcasts the index
reSyncIssuedWithBroadcast(c) == <<Track(roleOf(c), index[c]), Send(index[c])>>

\* what reSync issues: channel.track({role, index}) with the index of the
\* render the button belongs to
reSyncIssued(c) == <<Track(roleOf(c), index[c])>>

\* the re-sync button, rendered only while liveFollow is false
reSync(c) ==
    /\ mounted(c)
    /\ Gesture
    /\ ~liveFollow[c]
    /\ Len(outbox[c]) <= MaxPending
    /\ liveFollow' = [liveFollow EXCEPT ![c] = TRUE]
    /\ outbox' = [outbox EXCEPT ![c] = @ \o reSyncIssued(c)]
    /\ last' = Ran("reSync", c, index[c], NoMsg, reSyncIssued(c))
    /\ UNCHANGED <<props, offChannel, status, index, capIndex, capLiveFollow, inbox,
                   presence, foreignSent>>

\* A handler run on the event at the head of the inbox; i is the index it sets.
\* The render that follows runs the republish effect when the index changed.
Handle(c, op, i) ==
    /\ turn(c)
    /\ index' = [index EXCEPT ![c] = i]
    /\ inbox' = [inbox EXCEPT ![c] = Tail(@)]
    /\ outbox' = [outbox EXCEPT ![c] = @ \o republish(c, index[c], i)]
    /\ last' = Ran(op, c, index[c], Head(inbox[c]), republish(c, index[c], i))
    /\ UNCHANGED <<props, offChannel, gestures, status, liveFollow, capIndex, capLiveFollow,
                   presence, foreignSent>>

onSlide(c) ==
    /\ status[c] = "subscribed"
    /\ inbox[c] # <<>>
    /\ Head(inbox[c]).ev = "slide"
    /\ Handle(c, "onSlide", slideHandler(c, Head(inbox[c]).payload))

onSync(c) ==
    /\ status[c] = "subscribed"
    /\ inbox[c] # <<>>
    /\ Head(inbox[c]).ev = "sync"
    /\ Handle(c, "onSync", syncHandler(c, Head(inbox[c]).state))

\* The service processes the oldest operation of a joined client: a track
\* replaces the client's presence record and every joined client gets a sync;
\* a broadcast goes to every joined client but its sender (self: false).
ServeTrack(c) ==
    /\ canServe(c)
    /\ Head(outbox[c]).op = "track"
    /\ presence' = [presence EXCEPT ![c] =
                      [role |-> Head(outbox[c]).role, index |-> Head(outbox[c]).index]]
    /\ inbox' = Emit(inRoom(roomId[c]),
                     SyncBy(c, presence[c] # NoRec, roomState(presence', roomId[c])))
    /\ outbox' = [outbox EXCEPT ![c] = Tail(@)]
    /\ last' = EnvStep
    /\ UNCHANGED <<props, offChannel, gestures, status, index, liveFollow, capIndex, capLiveFollow,
                   foreignSent>>

ServeSend(c) ==
    /\ canServe(c)
    /\ Head(outbox[c]).op = "send"
    /\ inbox' = Emit(inRoom(roomId[c]) \ {c}, SlideMsg(c, NumP(Head(outbox[c]).index)))
    /\ outbox' = [outbox EXCEPT ![c] = Tail(@)]
    /\ last' = EnvStep
    /\ UNCHANGED <<props, offChannel, gestures, status, index, liveFollow, capIndex, capLiveFollow,
                   presence, foreignSent>>

\* Cleanup of the channel effect on unmount: channel.unsubscribe().  The
\* service drops the client's presence record and tells the others.
Unmount(c) ==
    /\ mounted(c)
    /\ quiet
    /\ Room(inRoom(roomId[c]) \ {c})
    /\ status' = [status EXCEPT ![c] = "closed"]
    /\ presence' = [presence EXCEPT ![c] = NoRec]
    /\ inbox' = IF presence[c] # NoRec
                THEN [Emit(inRoom(roomId[c]) \ {c},
                           SyncMsg(roomState(presence', roomId[c]))) EXCEPT ![c] = <<>>]
                ELSE [inbox EXCEPT ![c] = <<>>]
    /\ outbox' = [outbox EXCEPT ![c] = <<>>]
    /\ last' = EnvStep
    /\ UNCHANGED <<props, offChannel, gestures, index, liveFollow, capIndex, capLiveFollow, foreignSent>>

\* Another participant of the channel (not a LiveSlides instance) broadcasts
\* a "slide" event with an arbitrary payload.
ForeignSend(p) ==
    /\ foreignSent < MaxForeign
    /\ joined # {}
    /\ \A d \in joined : outbox[d] = <<>> /\ inbox[d] = <<>>
    /\ foreignSent' = foreignSent + 1
    /\ inbox' = Emit(joined, SlideMsg(Foreign, p))
    /\ last' = EnvStep
    /\ UNCHANGED <<props, offChannel, gestures, status, index, liveFollow, capIndex, capLiveFollow,
                   outbox, presence>>

Next ==
    \/ \E c \in Clients : Mount(c)
    \/ \E c \in Clients : Subscribed(c)
    \/ \E c \in Clients : next(c)
    \/ \E c \in Clients : prev(c)
    \/ \E c \in Clients : setLiveFollow(c)
    \/ \E c \in Clients : reSync(c)
    \/ \E c \in Clients : onSlide(c)
    \/ \E c \in Clients : onSync(c)
    \/ \E c \in Clients : ServeTrack(c)
    \/ \E c \in Clients : ServeSend(c)
    \/ \E c \in Clients : Unmount(c)

Spec == Init /\ [][Next]_vars

\* The room is open to participants that are not this component.
NextOpen ==
    \/ Next
    \/ \E p \in ForeignPayloads : ForeignSend(p)

SpecOpen == Init /\ [][NextOpen]_vars

TypeOK ==
    /\ slideCount \in 1..MaxSlides
    /\ \A c \in Clients : Len(inbox[c]) <= MaxInbox

\* --------------------------------------------------------- page resolver
\* Page: resolves the route and query parameters of a request into the props
\* the component of that client is rendered with
Page(c) ==
    /\ request.c = c
    /\ status[c] = "idle"
    /\ isPresenter' = [isPresenter EXCEPT ![c] = pageIsPresenter(request.presenter)]
    /\ roomId' = [roomId EXCEPT ![c] = request.roomId]
    /\ last' = Ran("Page", c, index[c], NoMsg, <<>>)
    /\ UNCHANGED <<offChannel, slideCount, request, status, index, liveFollow, capIndex,
                   capLiveFollow, outbox, inbox, presence, foreignSent, gestures>>

InitPage == InitRoom /\ request \in Requests

NextPage == \E c \in Clients : Page(c)

SpecPage == InitPage /\ [][NextPage]_vars

\* ------------------------------------------------------------- keyboard
Keys == {"ArrowRight", "ArrowLeft", "d", "A", "x"}

KeyMsg(k) == [ev |-> "keydown", from |-> Foreign,
              payload |-> [t |-> k, v |-> 0], state |-> NoState]

\* e.key.toLowerCase()
toLowerCase(k) ==
    CASE k = "A" -> "a"
      [] k = "D" -> "d"
      [] k = "ArrowRight" -> "arrowright"
      [] k = "ArrowLeft" -> "arrowleft"
      [] OTHER -> k

\* variant of onKey whose listener is bound in every session
onKeyAnyRole(c, k) ==
    IF k = "ArrowRight" \/ toLowerCase(k) = "d" THEN "next"
    ELSE IF k = "ArrowLeft" \/ toLowerCase(k) = "a" THEN "prev"
    ELSE "none"

\* the keyboard effect: no listener unless isPresenter; onKey calls next() on
\* ArrowRight or "d", prev() on ArrowLeft or "a"
onKey(c, k) ==
    IF ~isPresenter[c] THEN "none"
    ELSE IF k = "ArrowRight" \/ toLowerCase(k) = "d" THEN "next"
    ELSE IF k = "ArrowLeft" \/ toLowerCase(k) = "a" THEN "prev"
    ELSE "none"

\* a keydown event on the window of client c
keydown(c, k) ==
    LET i == CASE onKey(c, k) = "next" -> nextIndex(c)
               [] onKey(c, k) = "prev" -> prevIndex(c)
               [] OTHER -> index[c]
        issued == IF onKey(c, k) = "none" THEN <<>>
                  ELSE navIssued(c, i) \o republish(c, index[c], i)
    IN  /\ mounted(c)
        /\ Gesture
        /\ Len(outbox[c]) <= MaxPending
        /\ index' = [index EXCEPT ![c] = i]
        /\ outbox' = [outbox EXCEPT ![c] = @ \o issued]
        /\ last' = Ran("keydown", c, index[c], KeyMsg(k), issued)
        /\ UNCHANGED <<props, offChannel, status, liveFollow, capIndex, capLiveFollow,
                       inbox, presence, foreignSent>>

NextKeys ==
    \/ Next
    \/ \E c \in Clients, k \in Keys : keydown(c, k)

SpecKeys == Init /\ [][NextKeys]_vars

\* ------------------------------------------------------------ room change
\* The roomId prop changes while the component stays mounted.  The cleanup of
\* the channel effect calls unsubscribe() on the old channel without awaiting
\* it and the effect runs again: new channel, new closures, subscribe().  The
\* republish effect does not run (index and isPresenter are unchanged).
\* Operations still pending on the old channel go with it; the events the old
\* channel has not dispatched yet are kept apart, with the liveFollow its
\* handlers closed over.
Reroute(c, r) ==
    /\ mounted(c)
    \* a gesture, and the last one explored
    /\ quiet
    /\ gestures < MaxGestures
    /\ gestures' = MaxGestures
    /\ r # roomId[c]
    \* one room change is explored at a time
    /\ \A d \in Clients : stale[d] = NoStale /\ roomId[d] = roomId[c]
    /\ Room(inRoom(roomId[c]) \ {c})
    /\ roomId' = [roomId EXCEPT ![c] = r]
    /\ status' = [status EXCEPT ![c] = "connecting"]
    /\ capIndex' = [capIndex EXCEPT ![c] = index[c]]
    /\ capLiveFollow' = [capLiveFollow EXCEPT ![c] = liveFollow[c]]
    /\ stale' = [stale EXCEPT ![c] = [q |-> inbox[c], liveFollow |-> capLiveFollow[c]]]
    /\ presence' = [presence EXCEPT ![c] = NoRec]
    /\ inbox' = IF presence[c] # NoRec
                THEN [Emit(inRoom(roomId[c]) \ {c},
                           SyncMsg(roomState(presence', roomId[c]))) EXCEPT ![c] = <<>>]
                ELSE [inbox EXCEPT ![c] = <<>>]
    /\ outbox' = [outbox EXCEPT ![c] = <<>>]
    /\ last' = Ran("Reroute", c, index[c], NoMsg, <<>>)
    /\ UNCHANGED <<slideCount, isPresenter, request, rejects, unhandled, index, liveFollow,
                   foreignSent>>

\* A handler of the old channel runs on an event that channel had received:
\* nothing in the component detaches the handlers or tells them the channel
\* was replaced.  The render that follows republishes on the current channel.
Late(c, op, i) ==
    /\ mounted(c)
    /\ \A d \in Clients : ~canServe(d)
    /\ stale[c].q # <<>>
    /\ Len(outbox[c]) <= MaxPending
    /\ index' = [index EXCEPT ![c] = i]
    /\ stale' = [stale EXCEPT ![c].q = Tail(@)]
    /\ outbox' = [outbox EXCEPT ![c] = @ \o republish(c, index[c], i)]
    /\ last' = Ran(op, c, index[c], Head(stale[c].q), republish(c, index[c], i))
    /\ UNCHANGED <<props, rejects, unhandled, gestures, status, liveFollow, capIndex,
                   capLiveFollow, inbox, presence, foreignSent>>

lateSlide(c) ==
    /\ stale[c].q # <<>>
    /\ Head(stale[c].q).ev = "slide"
    /\ LET p == Head(stale[c].q).payload
       IN  Late(c, "lateSlide",
                IF ~stale[c].liveFollow THEN index[c]
                ELSE IF NumberOf(p).nan THEN index[c]
                ELSE bound(NumberOf(p).v))

lateSync(c) ==
    /\ stale[c].q # <<>>
    /\ Head(stale[c].q).ev = "sync"
    /\ Late(c, "lateSync", syncHandler(c, Head(stale[c].q).state))

\* The old channel closes: whatever it had not dispatched is discarded.
closeStale(c) ==
    /\ stale[c].q # <<>>
    /\ \A d \in Clients : ~canServe(d)
    /\ stale' = [stale EXCEPT ![c] = NoStale]
    /\ last' = EnvStep
    /\ UNCHANGED <<props, rejects, unhandled, gestures, status, index, liveFollow, capIndex,
                   capLiveFollow, outbox, inbox, presence, foreignSent>>

NextRoute ==
    \/ Next
    \/ \E c \in Clients, r \in Rooms : Reroute(c, r)
    \/ \E c \in Clients : lateSlide(c)
    \/ \E c \in Clients : lateSync(c)
    \/ \E c \in Clients : closeStale(c)

SpecRoute == Init /\ [][NextRoute]_vars

\* ---------------------------------------------------------------- failures
\* Whether the promise returned at a call site has a rejection handler:
\* .catch(() => {}) follows the track of the republish effect and the track of
\* reSync; the track and the send of the SUBSCRIBED callback and the send of
\* broadcast() are left as they are.
caught(site, o) == o.op = "track" /\ site # "Subscribed"

RejectMsg(site, o) == [ev |-> "reject", from |-> Foreign,
                       payload |-> [t |-> site, v |-> o.index], state |-> NoState]

\* The k-th operation issued by the handler that just ran fails: the service
\* never processes it and the promise it returned is rejected.
Reject(k) ==
    LET c == last.c
        n == Len(last.issued)
        m == IF c \in Clients THEN Len(outbox[c]) ELSE 0
    IN  /\ c \in Clients
        /\ rejects < MaxRejects
        /\ rejects' = rejects + 1
        /\ k \in 1..n
        /\ m >= n
        /\ SubSeq(outbox[c], m - n + 1, m) = last.issued
        /\ outbox' = [outbox EXCEPT ![c] =
                        SubSeq(@, 1, m - n + k - 1) \o SubSeq(@, m - n + k + 1, m)]
        /\ unhandled' = (unhandled \/ ~caught(last.op, last.issued[k]))
        /\ last' = Ran("Reject", c, index[c], RejectMsg(last.op, last.issued[k]), <<>>)
        \* no user gesture is explored after a failure
        /\ gestures' = MaxGestures
        /\ UNCHANGED <<props, stale, status, index, liveFollow, capIndex,
                       capLiveFollow, inbox, presence, foreignSent>>

NextFail ==
    \/ Next
    \/ \E k \in 1..Len(last.issued) : Reject(k)

SpecFail == Init /\ [][NextFail]_vars

\* ------------------------------------------------- one presenter, one viewer
\* The clients that take part: the presenter and the first viewer.
Cast == {c \in Clients : Cardinality({d \in 1..c : ~isPresenter[d]}) <= 1}

InitConverge == Init /\ Cardinality({c \in Clients : isPresenter[c]}) = 1

\* Both mount and stay; only the presenter navigates; nobody touches the
\* follow-live checkbox.
NextConverge ==
    \/ \E c \in Cast : Mount(c)
    \/ \E c \in Cast : Subscribed(c)
    \/ \E c \in Cast : isPresenter[c] /\ next(c)
    \/ \E c \in Cast : isPresenter[c] /\ prev(c)
    \/ \E c \in Cast : onSlide(c)
    \/ \E c \in Cast : onSync(c)
    \/ \E c \in Cast : ServeTrack(c)
    \/ \E c \in Cast : ServeSend(c)

SpecConverge == InitConverge /\ [][NextConverge]_vars

\* ================================================================ claims
Range(q) == {q[i] : i \in 1..Len(q)}

ranOn(op) == last.op = op /\ last.c \in Clients

clamp(i) == IF i < 0 THEN 0 ELSE IF i > slideCount - 1 THEN slideCount - 1 ELSE i

\* C1: with at least one slide, the displayed index of every client stays
\* within 0..slideCount-1, whatever navigation, broadcasts (also out of range
\* or malformed ones) and presence-sync events it has gone through.
C1_IndexInRange ==
    \A c \in Clients : 0 <= index[c] /\ index[c] <= slideCount - 1

C1_Witness ==
    /\ ranOn("onSlide")
    /\ last.msg.payload = NumP(MaxSlides)
    /\ slideCount > 1
    /\ last.prev = 0
    /\ index[last.c] = slideCount - 1

\* C2: a subscribed viewer whose follow-live flag is true and that handles a
\* slide broadcast carrying the number i displays max(0, min(slideCount-1, i))
\* right after the handler.
C2_FollowingViewerApplies ==
    (/\ ranOn("onSlide")
     /\ ~isPresenter[last.c]
     /\ liveFollow[last.c]
     /\ last.msg.payload.t = "num")
        => index[last.c] = clamp(last.msg.payload.v)

C2_Witness ==
    /\ ranOn("onSlide")
    /\ ~isPresenter[last.c]
    /\ liveFollow[last.c]
    /\ last.msg.from \in Clients
    /\ isPresenter[last.msg.from]
    /\ last.msg.payload.t = "num"
    /\ index[last.c] = last.msg.payload.v
    /\ index[last.c] # last.prev

\* C3: a viewer whose follow-live flag is false keeps its displayed index
\* when it handles a slide broadcast.
C3_NonFollowingIgnoresBroadcast ==
    (/\ ranOn("onSlide")
     /\ ~isPresenter[last.c]
     /\ ~liveFollow[last.c])
        => index[last.c] = last.prev

\* C4: a presenter that handles a slide broadcast keeps its displayed index
\* and republishes nothing.
C4_PresenterIgnoresBroadcast ==
    (ranOn("onSlide") /\ isPresenter[last.c])
        => (index[last.c] = last.prev /\ last.issued = <<>>)

\* C5: after a presence-sync handled by a non-presenter, the displayed index
\* is the clamped maximum of the indices of the records tagged "presenter" in
\* the presence state, and 0 when there is none; a presenter's index is
\* unchanged by the event.
C5_SyncResolvesToMaxPresenter ==
    ranOn("onSync") =>
        LET st == last.msg.state
            P  == {k \in Clients : st[k].role = "presenter"}
        IN  IF isPresenter[last.c] THEN index[last.c] = last.prev
            ELSE IF P = {} THEN index[last.c] = 0
            ELSE \E k \in P :
                    /\ \A j \in P : st[j].index <= st[k].index
                    /\ index[last.c] = clamp(st[k].index)

C5_Witness ==
    /\ ranOn("onSync")
    /\ ~isPresenter[last.c]
    /\ \E j, k \in Clients :
          /\ last.msg.state[j].role = "presenter"
          /\ last.msg.state[k].role = "presenter"
          /\ last.msg.state[j].index < last.msg.state[k].index
          /\ index[last.c] = last.msg.state[k].index

\* C6: while a viewer's follow-live flag is false, no event that stems from
\* a presenter (a presenter's slide broadcast, or a presence-sync whose state
\* holds a presenter's record) changes the viewer's displayed index.
fromPresenter(m) ==
    \/ m.ev = "slide" /\ m.from \in Clients /\ isPresenter[m.from]
    \/ m.ev = "sync" /\ \E k \in Clients : m.state[k].role = "presenter"

C6_FrozenWhileNotFollowing ==
    (/\ (ranOn("onSlide") \/ ranOn("onSync"))
     /\ ~isPresenter[last.c]
     /\ ~liveFollow[last.c]
     /\ fromPresenter(last.msg))
        => index[last.c] = last.prev

\* C7 (as claimed): every next or prev of a presenter that yields index i
\* sends a slide broadcast carrying i and republishes {presenter, i}.
C7_NavAlwaysRepublishes ==
    ((ranOn("next") \/ ranOn("prev")) /\ isPresenter[last.c])
        => /\ Send(index[last.c]) \in Range(last.issued)
           /\ Track("presenter", index[last.c]) \in Range(last.issued)

\* C7 (amended): every next or prev of a presenter that yields index i sends
\* a slide broadcast carrying i; it republishes {presenter, i} after the
\* broadcast exactly when i differs from the index before.
C7_NavRepublishesOnChange ==
    ((ranOn("next") \/ ranOn("prev")) /\ isPresenter[last.c])
        => last.issued =
             IF index[last.c] # last.prev
             THEN <<Send(index[last.c]), Track("presenter", index[last.c])>>
             ELSE <<Send(index[last.c])>>

C7_Witness ==
    /\ ranOn("next")
    /\ isPresenter[last.c]
    /\ index[last.c] = last.prev + 1
    /\ last.issued = <<Send(index[last.c]), Track("presenter", index[last.c])>>

\* C8: no slide broadcast is ever issued by, or in flight from, a client that
\* is not a presenter; a viewer's next and prev issue nothing.
C8_OnlyPresentersBroadcast ==
    /\ \A c \in Clients : \A o \in Range(outbox[c]) :
          o.op = "send" => isPresenter[c]
    /\ \A c \in Clients : \A m \in Range(inbox[c]) :
          (m.ev = "slide" /\ m.from \in Clients) => isPresenter[m.from]
    /\ (last.c \in Clients /\ ~isPresenter[last.c])
          => \A o \in Range(last.issued) : o.op # "send"

C8_Witness ==
    /\ ranOn("next")
    /\ ~isPresenter[last.c]
    /\ index[last.c] # last.prev
    /\ last.issued = <<>>

\* C9: a subscribed presenter none of whose presence updates is pending has
\* a presence record equal to {presenter, displayed index}.
C9_PresenceMatchesDisplayed ==
    \A c \in Clients :
        (/\ status[c] = "subscribed"
         /\ isPresenter[c]
         /\ \A o \in Range(outbox[c]) : o.op # "track")
            => presence[c] = [role |-> "presenter", index |-> index[c]]

\* C10: after next from index k the displayed index is
\* max(0, min(slideCount-1, k+1)), after prev it is max(0, min(slideCount-1,
\* k-1)); next on the last slide and prev on the first change nothing.
C10_NavClamps ==
    /\ ranOn("next") =>
          /\ index[last.c] = clamp(last.prev + 1)
          /\ last.prev = slideCount - 1 => index[last.c] = last.prev
    /\ ranOn("prev") =>
          /\ index[last.c] = clamp(last.prev - 1)
          /\ last.prev = 0 => index[last.c] = last.prev

C10_Witness ==
    /\ ranOn("next")
    /\ slideCount > 1
    /\ last.prev = slideCount - 1
    /\ index[last.c] = last.prev

\* C11: in a non-presenter session a keydown changes neither the displayed
\* index nor the follow-live flag and issues no broadcast and no presence
\* update; in a presenter session "d"/ArrowRight does what next does and
\* "a"/ArrowLeft what prev does.
C11_KeyboardShortcuts ==
    [][ (last'.op = "keydown") =>
          LET c == last'.c
              k == last'.msg.payload.t
              right == k \in {"ArrowRight", "d", "D"}
              left  == k \in {"ArrowLeft", "a", "A"}
          IN  /\ liveFollow' = liveFollow
              /\ ~isPresenter[c] =>
                    /\ index' = index
                    /\ outbox' = outbox
                    /\ last'.issued = <<>>
              /\ (isPresenter[c] /\ right) =>
                    /\ index'[c] = clamp(index[c] + 1)
                    /\ last'.issued =
                         IF index'[c] # index[c]
                         THEN <<Send(index'[c]), Track("presenter", index'[c])>>
                         ELSE <<Send(index'[c])>>
              /\ (isPresenter[c] /\ left) =>
                    /\ index'[c] = clamp(index[c] - 1)
                    /\ last'.issued =
                         IF index'[c] # index[c]
                         THEN <<Send(index'[c]), Track("presenter", index'[c])>>
                         ELSE <<Send(index'[c])>>
    ]_vars

C11_Witness ==
    /\ ranOn("keydown")
    /\ ~isPresenter[last.c]
    /\ last.msg.payload.t = "ArrowRight"
    /\ slideCount > 1
    /\ index[last.c] = 0
    /\ last.prev = 0

\* C12: the page resolver yields isPresenter = TRUE exactly when the presenter
\* parameter is present and is "1", "true" or "yes" in any letter case; every
\* other value and an absent parameter yield FALSE; roomId is passed through.
C12_PageResolver ==
    (last.op = "Page") =>
        LET c == last.c
            v == request.presenter.v
            isOne  == v = <<"1">>
            isTrue == /\ Len(v) = 4
                      /\ v[1] \in {"t", "T"}
                      /\ v[2] = "r"
                      /\ v[3] = "u"
                      /\ v[4] = "e"
            isYes  == /\ Len(v) = 3
                      /\ v[1] \in {"y", "Y"}
                      /\ v[2] = "e"
                      /\ v[3] = "s"
        IN  /\ isPresenter[c] <=>
                 (request.presenter.t = "str" /\ (isOne \/ isTrue \/ isYes))
            /\ roomId[c] = request.roomId

C12_Witness ==
    /\ last.op = "Page"
    /\ request.presenter = Str(<<"Y", "e", "s">>)
    /\ request.roomId = "R1"
    /\ isPresenter[last.c]
    /\ roomId[last.c] = "R1"

\* C13 (as stated): a following viewer that handles a slide-change
\* notification with a non-numeric index ends up displaying index 0.
C13_NonNumericBecomesZero ==
    (/\ ranOn("onSlide")
     /\ ~isPresenter[last.c]
     /\ liveFollow[last.c]
     /\ last.msg.payload.t = "str") => index[last.c] = 0

\* C13 (amended): a following viewer that handles a slide-change notification
\* with a non-numeric index keeps the index it was displaying; a notification
\* with no index at all is the one treated as index 0.
C13_NonNumericIgnored ==
    (/\ ranOn("onSlide")
     /\ ~isPresenter[last.c]
     /\ liveFollow[last.c]) =>
        /\ last.msg.payload.t = "str" => index[last.c] = last.prev
        /\ last.msg.payload.t = "undef" => index[last.c] = 0

C13_Witness ==
    /\ ranOn("onSlide")
    /\ ~isPresenter[last.c]
    /\ liveFollow[last.c]
    /\ last.msg.payload.t = "str"
    /\ last.prev = 1
    /\ index[last.c] = 1

\* C14: the operations issued by the SUBSCRIBED callback (the presence record
\* and, for a presenter, the broadcast) carry the client's role and the index
\* it is displaying when the callback runs.
C14_SubscribedPublishesDisplayed ==
    ranOn("Subscribed") =>
        last.issued =
            <<Track(roleOf(last.c), index[last.c])>>
                \o (IF isPresenter[last.c] THEN <<Send(index[last.c])>> ELSE <<>>)

\* C15: a handler or effect that runs while the client's channel is still
\* connecting (created, SUBSCRIBED not yet delivered) issues no send and no
\* track on the channel.
C15_NoSendWhileConnecting ==
    (last.c \in Clients /\ status[last.c] = "connecting") => last.issued = <<>>

\* C17: re-sync sets follow-live to TRUE, issues exactly one presence track
\* carrying the client's role and the index it displays, leaves that index
\* unchanged and issues no broadcast.
C17_ReSyncRepublishesOnly ==
    ranOn("reSync") =>
        /\ liveFollow[last.c]
        /\ index[last.c] = last.prev
        /\ last.issued = <<Track(roleOf(last.c), index[last.c])>>
        /\ \A k \in 1..Len(last.issued) : last.issued[k].op # "send"

C17_Witness ==
    /\ ranOn("reSync")
    /\ liveFollow[last.c]
    /\ index[last.c] = 1
    /\ capIndex[last.c] = 0
    /\ last.issued = <<Track("viewer", 1)>>

\* C16: an event delivered on a channel the client has torn down changes
\* nothing of what the client displays, and its handling issues nothing.
C16_TornDownChannelIsInert ==
    (ranOn("lateSlide") \/ ranOn("lateSync")) =>
        /\ index[last.c] = last.prev
        /\ last.issued = <<>>

\* C18: whichever send or track of the component fails, its rejection has a
\* handler: no promise of the component is ever rejected unhandled.
C18_FailuresSwallowed == ~unhandled

\* everything that was issued has been processed and every event handled
Quiescent ==
    \A c \in Cast : status[c] = "subscribed" /\ outbox[c] = <<>> /\ inbox[c] = <<>>

\* C19: with one presenter and one viewer that follows and never navigates,
\* both subscribed, whenever everything that was issued has been processed
\* and every event has been handled, the viewer displays the presenter's
\* index.
C19_Converges ==
    Quiescent => \A c, d \in Cast : index[c] = index[d]

\* a presence-sync that follows a track of a viewer that already had a
\* record: viewers publish on SUBSCRIBED and on re-sync only
byViewerReSync(m) ==
    /\ m.ev = "sync"
    /\ m.from \in Clients
    /\ ~isPresenter[m.from]
    /\ m.payload.t = "retrack"

\* C20 (as stated): what a viewer does moves nobody else.  On one run: the
\* presence-sync that follows a viewer's re-sync leaves the displayed index
\* of every other client as it was.
C20_ViewersCannotMoveEachOther ==
    (ranOn("onSync") /\ byViewerReSync(last.msg) /\ last.msg.from # last.c)
        => index[last.c] = last.prev

\* C20 (amended): the role tag of a client's presence record, published or
\* about to be, is always the client's role; and the index a client displays
\* after a presence-sync is the same whatever the indices of the records
\* tagged "viewer" are: it is decided by the presenter-tagged records alone
\* (0 if there is none, unchanged for a presenter).
C20_ViewerRecordsCarryNoWeight ==
    /\ \A c \in Clients : presence[c].role \in {"none", roleOf(c)}
    /\ \A c \in Clients : \A k \in 1..Len(outbox[c]) :
          outbox[c][k].op = "track" => outbox[c][k].role = roleOf(c)
    /\ ranOn("onSync") =>
          LET st  == last.msg.state
              P   == {k \in Clients : st[k].role = "presenter"}
              top == {st[k].index : k \in P}
          IN  IF isPresenter[last.c] THEN index[last.c] = last.prev
              ELSE index[last.c] = (IF P = {} THEN 0 ELSE clamp(SetMax(top)))

C20_Witness ==
    /\ ranOn("onSync")
    /\ byViewerReSync(last.msg)
    /\ last.msg.from # last.c
    /\ ~isPresenter[last.c]
    /\ last.msg.state[last.msg.from] = [role |-> "viewer", index |-> 1]
    /\ last.prev = 1
    /\ index[last.c] = 0
====
